---------------------------- MODULE Spec2Model ----------------------------
(***************************************************************************)
(* Model of the TrustFactor side panel (src/src/main.tsx): the Sidebar     *)
(* component's state (links, isInjecting, error, results), its message     *)
(* listener with the per-link analysis fan-out, the injectScript handler,  *)
(* the score aggregation (calculateTotalScore) with the tier colouring of *)
(* the rendered score, and the registration of the listener over mounts    *)
(* and unmounts of the panel.                                              *)
(***************************************************************************)
EXTENDS Integers, Sequences, FiniteSets

VARIABLES
    links,       \* useState<LinkData[]>: the displayed link set
    isInjecting, \* useState(false)
    error,       \* useState<string | null>
    handlers,    \* messageListener invocations suspended at `await Promise.all`
    commands,    \* injectContentScript commands sent and not yet settled
    applied,     \* history: setLinks calls made so far (2 stands for two or more)
    unacked,     \* listener invocations that have not called sendResponse yet
    mounted,     \* a Sidebar instance is mounted
    registered,  \* listeners registered with chrome.runtime.onMessage
    orphans,     \* per suspended listener invocation of an unmounted instance,
                 \* the number of its requests that have not settled
    orphanCommands, \* unsettled injection commands of unmounted instances
    scoreArg,    \* argument of a calculateTotalScore call (aggregation runs)
    scoreRet,    \* what that call returned
    tierArg,     \* a rendered percentage (tier runs)
    tierRet      \* the colour class chosen for it

vars == <<links, isInjecting, error, handlers, commands, applied, unacked,
          mounted, registered, orphans, orphanCommands,
          scoreArg, scoreRet, tierArg, tierRet>>

(***************************************************************************)
(* Bounds of the model.                                                    *)
(***************************************************************************)
\* analysis requests outstanding at once, over all suspended handlers
MaxInFlight == 2
\* injection commands outstanding at once, over all instances
MaxCommands == 2
\* categories in a CategoryMap handed to calculateTotalScore
MaxCategories == 8
\* largest percentage handed to the tier colouring
MaxPercentage == 100

(***************************************************************************)
(* JavaScript numbers.  A number the program computes is an IEEE-754       *)
(* double: 53 significant bits.  A finite positive double is held as       *)
(* (1 + f) * 2^exp, its 52 fraction bits f as Limbs limbs of LimbBits bits *)
(* each, most significant first.                                           *)
(***************************************************************************)
LimbBits == 13
Limbs == 4

RECURSIVE Pow2(_)
Pow2(n) == IF n = 0 THEN 1 ELSE 2 * Pow2(n - 1)

Base == Pow2(LimbBits)

NaNDouble == [kind |-> "nan", exp |-> 0, mant |-> <<>>]
ZeroDouble == [kind |-> "zero", exp |-> 0, mant |-> <<>>]

Front(s) == SubSeq(s, 1, Len(s) - 1)
Last(s) == s[Len(s)]

\* scale a / b into [1, 2): a / b = (num / den) * 2^exp
RECURSIVE Normalize(_, _, _)
Normalize(a, b, e) ==
    IF a < b THEN Normalize(2 * a, b, e - 1)
    ELSE IF a >= 2 * b THEN Normalize(a, 2 * b, e + 1)
    ELSE [num |-> a, den |-> b, exp |-> e]

\* the next n limbs of the quotient r / d (r < d), and the remainder left over
RECURSIVE LongDivide(_, _, _, _)
LongDivide(r, d, n, limbs) ==
    IF n = 0 THEN [limbs |-> limbs, rem |-> r]
    ELSE LongDivide((r * Base) % d, d, n - 1, Append(limbs, (r * Base) \div d))

\* limbs + 1; <<>> stands for a carry out of the first limb
RECURSIVE Increment(_)
Increment(limbs) ==
    IF limbs = <<>> THEN <<>>
    ELSE IF Last(limbs) + 1 < Base THEN Append(Front(limbs), Last(limbs) + 1)
    ELSE LET front == Increment(Front(limbs))
         IN IF front = <<>> /\ Len(limbs) > 1 THEN <<>> ELSE Append(front, 0)

\* the double with fraction limbs (+ 1 unit in the last place when up)
RoundMantissa(limbs, e, up) ==
    IF ~up THEN [kind |-> "finite", exp |-> e, mant |-> limbs]
    ELSE IF \A i \in 1..Len(limbs) : limbs[i] = Base - 1
         THEN [kind |-> "finite", exp |-> e + 1, mant |-> [i \in 1..Len(limbs) |-> 0]]
         ELSE [kind |-> "finite", exp |-> e, mant |-> Increment(limbs)]

\* a / b on doubles, a and b non-negative integers (round to nearest, ties to
\* even).  b = 0 happens only with a = 0 (no scores): 0 / 0 is NaN.
DoubleDivide(a, b) ==
    IF b = 0 THEN NaNDouble
    ELSE IF a = 0 THEN ZeroDouble
    ELSE LET n == Normalize(a, b, 0)
             q == LongDivide(n.num - n.den, n.den, Limbs, <<>>)
             up == \/ 2 * q.rem > n.den
                   \/ 2 * q.rem = n.den /\ Last(q.limbs) % 2 = 1
         IN RoundMantissa(q.limbs, n.exp, up)

\* the exact product limbs * k + carry, as limbs under a leading digit
RECURSIVE MultiplyLimbs(_, _, _, _)
MultiplyLimbs(limbs, k, carry, out) ==
    IF limbs = <<>> THEN [top |-> carry, limbs |-> out]
    ELSE LET t == k * Last(limbs) + carry
         IN MultiplyLimbs(Front(limbs), k, t \div Base, <<t % Base>> \o out)

\* the s with 2^s <= n < 2^(s+1)
RECURSIVE Log2(_)
Log2(n) == IF n < 2 THEN 0 ELSE 1 + Log2(n \div 2)

\* x * k on doubles, k a positive integer below 2^LimbBits
DoubleMultiply(x, k) ==
    IF x.kind # "finite" THEN x
    ELSE LET p == MultiplyLimbs(x.mant, k, 0, <<>>)
             top == k + p.top
             s == Log2(top)
             digits == <<top % Pow2(s)>> \o p.limbs
             shifted == [i \in 1..Limbs |->
                            (digits[i] % Pow2(s)) * Pow2(LimbBits - s)
                                + digits[i + 1] \div Pow2(s)]
             lost == Last(digits) % Pow2(s)
             up == \/ 2 * lost > Pow2(s)
                   \/ 2 * lost = Pow2(s) /\ Last(shifted) % 2 = 1
         IN RoundMantissa(shifted, x.exp + s, up)

\* a number as the program sees it after Math.round: an integer or NaN
Num(n) == [isNaN |-> FALSE, value |-> n]
NaN == [isNaN |-> TRUE, value |-> 0]

\* Math.round of a double below 2^LimbBits: the nearest integer, a half
\* rounding up
MathRound(x) ==
    IF x.kind = "nan" THEN NaN
    ELSE IF x.kind = "zero" THEN Num(0)
    ELSE IF x.exp < -1 THEN Num(0)
    ELSE IF x.exp = -1 THEN Num(1)
    ELSE Num(Pow2(x.exp) + x.mant[1] \div Pow2(LimbBits - x.exp)
             + ((x.mant[1] \div Pow2(LimbBits - 1 - x.exp)) % 2))

\* x <= n in JavaScript: false when x is NaN
LessEq(x, n) == ~x.isNaN /\ x.value <= n

(***************************************************************************)
(* Score aggregation.  A Results.scores object is the sequence of its      *)
(* entries in insertion order, each [category, score] (the quotes play no  *)
(* part in the arithmetic).                                                *)
(***************************************************************************)
MaxScore == 5

RECURSIVE Reduce(_, _)
Reduce(scores, sum) ==
    IF scores = <<>> THEN sum
    ELSE Reduce(Tail(scores), sum + Head(scores).score)

calculateTotalScore(scores) ==
    LET totalScores == Reduce(scores, 0)
        maxPossibleScore == Len(scores) * MaxScore
        percentageScore == DoubleMultiply(DoubleDivide(totalScores, maxPossibleScore), 100)
    IN MathRound(percentageScore)


\* the hard-coded `results` state of the Sidebar
results ==
    << [category |-> "account_control", score |-> 3],
       [category |-> "data_collection", score |-> 2],
       [category |-> "privacy_info", score |-> 4],
       [category |-> "account_testing", score |-> 5] >>

\* the colour class of the rendered score
scoreClass_strict(score) ==
    IF ~score.isNaN /\ score.value < 40 THEN "text-red-500"
    ELSE IF ~score.isNaN /\ score.value < 80 THEN "text-blue-600"
    ELSE "text-purple-500"

scoreClass(score) ==
    IF LessEq(score, 40) THEN "text-red-500"
    ELSE IF LessEq(score, 80) THEN "text-blue-600"
    ELSE "text-purple-500"

\* what the panel renders for the score: nothing while links is empty
ScoreShown == Len(links) > 0
DisplayedScore == calculateTotalScore(results)
DisplayedClass == scoreClass(calculateTotalScore(results))

(***************************************************************************)
(* Links, analysis responses and the per-link analysis call.               *)
(***************************************************************************)
TosLink == [href |-> "https://x.com/tos", type |-> "terms"]
PrivLink == [href |-> "https://x.com/priv", type |-> "policy"]
LinkPool == {TosLink, PrivLink}

\* the link sequences a sendLinks notification may carry here: no link, either
\* link alone, or both
LinkBatches ==
    {<<>>} \cup {<<a>> : a \in LinkPool} \cup {<<TosLink, PrivLink>>}

Notifications ==
    {[action |-> "sendLinks", links |-> b] : b \in LinkBatches}
        \cup {[action |-> "other", links |-> <<>>]}

\* scores of two analysis response bodies
AnalysisA ==
    << [category |-> "account_control", score |-> 3],
       [category |-> "data_collection", score |-> 2] >>
AnalysisB == << [category |-> "privacy_info", score |-> 4] >>
Analyses == {AnalysisA, AnalysisB}

\* what the network does to one request: fetch rejects, the response is not
\* ok, its body is no JSON, or it is ok and carries an analysis
FetchOutcomes ==
    {[kind |-> k, body |-> <<>>] : k \in {"networkError", "non2xx", "malformed"}}
        \cup {[kind |-> "ok", body |-> a] : a \in Analyses}

\* a response body that breaks the data contract: a score outside 0..MaxScore
AnalysisC == << [category |-> "privacy_info", score |-> 7] >>
ViolatingOutcomes == {[kind |-> "ok", body |-> AnalysisC]}

\* fetchAnalysis: rethrows every failure, returns the parsed body otherwise
fetchAnalysis(o) ==
    IF o.kind = "networkError" THEN [threw |-> TRUE, value |-> <<>>]
    ELSE IF o.kind = "non2xx" THEN [threw |-> TRUE, value |-> <<>>]
    ELSE IF o.kind = "malformed" THEN [threw |-> TRUE, value |-> <<>>]
    ELSE [threw |-> FALSE, value |-> o.body]

\* an element of linksWithAnalysis: the link as delivered, or { ...link, analysis }
Plain(link) ==
    [href |-> link.href, type |-> link.type, hasAnalysis |-> FALSE, analysis |-> <<>>]
WithAnalysis(link, analysis) ==
    [href |-> link.href, type |-> link.type, hasAnalysis |-> TRUE, analysis |-> analysis]

Pending(link) == [state |-> "pending", value |-> Plain(link)]

\* message.links.map(async (link) => ...): the callback runs once per link,
\* each run sends one fetch and is suspended on it
Requests_twice(ls) ==
    [i \in 1..(2 * Len(ls)) |-> Pending(ls[(i + 1) \div 2])]

Requests(ls) == [i \in 1..Len(ls) |-> Pending(ls[i])]

\* the callback mapped over message.links, once its fetchAnalysis has settled
mapLink_nocatch(link, o) ==
    LET r == fetchAnalysis(o)
    IN IF r.threw THEN [state |-> "rejected", value |-> Plain(link)]
       ELSE [state |-> "fulfilled", value |-> WithAnalysis(link, r.value)]

mapLink(link, o) ==
    LET r == fetchAnalysis(o)
    IN IF r.threw THEN [state |-> "fulfilled", value |-> Plain(link)]
       ELSE [state |-> "fulfilled", value |-> WithAnalysis(link, r.value)]

\* Promise.all: rejected as soon as one promise is, fulfilled with the values
\* in the promises' order once all are
PromiseAll_reversed(promises) ==
    [state |-> IF \E i \in 1..Len(promises) : promises[i].state = "rejected"
               THEN "rejected"
               ELSE IF \A i \in 1..Len(promises) : promises[i].state = "fulfilled"
               THEN "fulfilled"
               ELSE "pending",
     value |-> [i \in 1..Len(promises) |-> promises[Len(promises) + 1 - i].value]]

PromiseAll(promises) ==
    [state |-> IF \E i \in 1..Len(promises) : promises[i].state = "rejected"
               THEN "rejected"
               ELSE IF \A i \in 1..Len(promises) : promises[i].state = "fulfilled"
               THEN "fulfilled"
               ELSE "pending",
     value |-> [i \in 1..Len(promises) |-> promises[i].value]]

\* setLinks(linksWithAnalysis): the new array replaces the state
setLinks_append(prev, linksWithAnalysis) == prev \o linksWithAnalysis

setLinks(prev, linksWithAnalysis) == linksWithAnalysis

\* sendResponse({ farewell: "goodbye" }): one acknowledgement leaves, of the
\* n that are owed
sendResponse_twice(n) == n - 2

sendResponse(n) == n - 1

\* chrome.runtime.onMessage.addListener / removeListener on n registered
\* listeners; the cleanup passes the function the effect registered
addListener(n) == n + 1

removeListener_other(n) == n

removeListener(n) == IF n > 0 THEN n - 1 ELSE 0

\* the error state: null or a message
NoError == [isNull |-> TRUE, message |-> ""]
ErrorOf(message) == [isNull |-> FALSE, message |-> message]

(***************************************************************************)
(* The injection command.                                                  *)
(***************************************************************************)
\* how chrome.runtime.sendMessage settles: a response (its error "" when it
\* carries none), no response at all, a rejection with an Error, a rejection
\* with something that is no Error
InjectionReplies ==
    { [kind |-> "response", status |-> "success", error |-> ""],
      [kind |-> "response", status |-> "failure", error |-> "Cannot access this page"],
      [kind |-> "response", status |-> "failure", error |-> ""],
      [kind |-> "undefined", status |-> "", error |-> ""],
      [kind |-> "rejectError", status |-> "",
       error |-> "Could not establish connection. Receiving end does not exist."],
      [kind |-> "rejectOther", status |-> "", error |-> ""] }

\* injectScript's try block once the command has settled with reply: whether
\* the catch block runs, and the errorMessage it computes
Completed == [caught |-> FALSE, message |-> ""]
Caught(message) == [caught |-> TRUE, message |-> message]

injectionError_lenient(reply) ==
    IF reply.kind = "response" /\ reply.status = "success" THEN Completed
    ELSE IF reply.kind = "undefined" THEN Completed
    ELSE IF reply.kind = "response"
    THEN Caught(IF reply.error # "" THEN reply.error
                ELSE "Failed to inject content script")
    ELSE IF reply.kind = "rejectError" THEN Caught(reply.error)
    ELSE Caught("Unknown error occurred")

injectionError(reply) ==
    IF reply.kind = "response" /\ reply.status = "success" THEN Completed
    ELSE IF reply.kind \in {"response", "undefined"}
    THEN Caught(IF reply.error # "" THEN reply.error
                ELSE "Failed to inject content script")
    ELSE IF reply.kind = "rejectError" THEN Caught(reply.error)
    ELSE Caught("Unknown error occurred")

(***************************************************************************)
(* The panel.                                                              *)
(***************************************************************************)
\* the record of a calculateTotalScore call: none made yet, or its return
\* (the function has no throw: a call always returns)
NotCalled == [called |-> FALSE, threw |-> FALSE, result |-> NaN]
Returned(result) == [called |-> TRUE, threw |-> FALSE, result |-> result]

PureIdle ==
    /\ scoreArg = <<>>
    /\ scoreRet = NotCalled
    /\ tierArg = NaN
    /\ tierRet = ""

\* the useState initial values, nothing in flight
PanelIdle ==
    /\ links = <<>>
    /\ isInjecting = FALSE
    /\ error = NoError
    /\ handlers = <<>>
    /\ commands = 0
    /\ applied = 0
    /\ unacked = 0

\* mountSidebar has rendered the Sidebar and its effect has registered the
\* listener
Mounted ==
    /\ mounted = TRUE
    /\ registered = 1
    /\ orphans = <<>>
    /\ orphanCommands = 0

\* before mountSidebar
Unmounted ==
    /\ mounted = FALSE
    /\ registered = 0
    /\ orphans = <<>>
    /\ orphanCommands = 0

Init == PanelIdle /\ Mounted /\ PureIdle

RECURSIVE CountPending(_)
CountPending(promises) ==
    IF promises = <<>> THEN 0
    ELSE (IF Head(promises).state = "pending" THEN 1 ELSE 0) + CountPending(Tail(promises))

\* analysis requests sent and not yet settled
RECURSIVE Outstanding(_)
Outstanding(hs) ==
    IF hs = <<>> THEN 0 ELSE CountPending(Head(hs).promises) + Outstanding(Tail(hs))

\* the same for the invocations of unmounted instances
RECURSIVE OutstandingOrphans(_)
OutstandingOrphans(os) ==
    IF os = <<>> THEN 0 ELSE Head(os) + OutstandingOrphans(Tail(os))

Remove(hs, k) == SubSeq(hs, 1, k - 1) \o SubSeq(hs, k + 1, Len(hs))

\* superseded is history, not program state: a sendLinks notification was
\* delivered after this handler's
Supersede(hs) == [k \in 1..Len(hs) |-> [hs[k] EXCEPT !.superseded = TRUE]]

\* the listener resumes after `await Promise.all(...)` with its outcome all:
\* setLinks, setError(null) and then sendResponse({farewell: "goodbye"}), after
\* which the invocation is over (hs is handlers without it, owed counts it
\* among the invocations that have not responded); on a rejection the
\* listener's own promise rejects and none of the three is reached
Resume_keepError(hs, all, owed) ==
    IF all.state = "fulfilled"
    THEN /\ handlers' = hs
         /\ links' = setLinks(links, all.value)
         /\ error' = error
         /\ applied' = (IF applied < 2 THEN applied + 1 ELSE applied)
         /\ unacked' = sendResponse(owed)
    ELSE /\ handlers' = hs
         /\ unacked' = owed
         /\ UNCHANGED <<links, error, applied>>

Resume(hs, all, owed) ==
    IF all.state = "fulfilled"
    THEN /\ handlers' = hs
         /\ links' = setLinks(links, all.value)
         /\ error' = NoError
         /\ applied' = (IF applied < 2 THEN applied + 1 ELSE applied)
         /\ unacked' = sendResponse(owed)
    ELSE /\ handlers' = hs
         /\ unacked' = owed
         /\ UNCHANGED <<links, error, applied>>

\* chrome.runtime.onMessage delivers message to the registered messageListener,
\* which runs to its first await: a fetch is sent for every link and the
\* invocation is suspended with sendResponse not called yet (acked is FALSE).
\* With no link Promise.all is fulfilled at once and the listener resumes in
\* the same turn; for another action only sendResponse is called
Deliver(message) ==
    /\ registered > 0
    /\ IF message.action = "sendLinks"
       THEN IF message.links = <<>>
            THEN Resume(Supersede(handlers), PromiseAll(Requests(<<>>)), unacked + 1)
            ELSE /\ Outstanding(handlers) + OutstandingOrphans(orphans) + Len(message.links)
                        <= MaxInFlight
                 /\ handlers' = Append(Supersede(handlers),
                        [links |-> message.links,
                         promises |-> Requests(message.links),
                         acked |-> FALSE,
                         superseded |-> FALSE])
                 /\ unacked' = unacked + 1
                 /\ UNCHANGED <<links, error, applied>>
       ELSE /\ unacked' = sendResponse(unacked + 1)
            /\ UNCHANGED <<links, error, handlers, applied>>
    /\ UNCHANGED <<isInjecting, commands, mounted, registered, orphans,
                   orphanCommands, scoreArg, scoreRet, tierArg, tierRet>>

\* the request of link i of handler k settles with outcome o; when it was the
\* last one (or Promise.all rejects) the listener resumes in the same turn
Settle(k, i, o) ==
    /\ k \in 1..Len(handlers)
    /\ i \in 1..Len(handlers[k].promises)
    /\ handlers[k].promises[i].state = "pending"
    /\ LET h == handlers[k]
           promises == [h.promises EXCEPT ![i] = mapLink(h.links[i], o)]
           all == PromiseAll(promises)
       IN IF all.state = "pending"
          THEN /\ handlers' = [handlers EXCEPT ![k].promises = promises]
               /\ UNCHANGED <<links, error, applied, unacked>>
          ELSE Resume(Remove(handlers, k), all, unacked)
    /\ UNCHANGED <<isInjecting, commands, mounted, registered, orphans,
                   orphanCommands, scoreArg, scoreRet, tierArg, tierRet>>

\* the scan button's disabled attribute
ScanDisabled_never == FALSE

ScanDisabled == isInjecting

\* a click on the scan button: injectScript runs to its await
InjectScript_clearing ==
    /\ mounted
    /\ ~ScanDisabled
    /\ commands + orphanCommands < MaxCommands
    /\ isInjecting' = TRUE
    /\ error' = NoError
    /\ commands' = commands + 1
    /\ links' = <<>>
    /\ UNCHANGED <<handlers, applied, unacked, mounted, registered, orphans,
                   orphanCommands, scoreArg, scoreRet, tierArg, tierRet>>

InjectScript ==
    /\ mounted
    /\ ~ScanDisabled
    /\ commands + orphanCommands < MaxCommands
    /\ isInjecting' = TRUE
    /\ error' = NoError
    /\ commands' = commands + 1
    /\ UNCHANGED <<links, handlers, applied, unacked, mounted, registered, orphans,
                   orphanCommands, scoreArg, scoreRet, tierArg, tierRet>>

\* the command settles with reply: injectScript's try / catch / finally
InjectionSettles_nofinally(reply) ==
    /\ commands > 0
    /\ commands' = commands - 1
    /\ error' = (IF injectionError(reply).caught
                 THEN ErrorOf(injectionError(reply).message)
                 ELSE error)
    /\ isInjecting' = (IF injectionError(reply).caught THEN isInjecting ELSE FALSE)
    /\ UNCHANGED <<links, handlers, applied, unacked, mounted, registered, orphans,
                   orphanCommands, scoreArg, scoreRet, tierArg, tierRet>>

InjectionSettles(reply) ==
    /\ commands > 0
    /\ commands' = commands - 1
    /\ error' = (IF injectionError(reply).caught
                 THEN ErrorOf(injectionError(reply).message)
                 ELSE error)
    /\ isInjecting' = FALSE
    /\ UNCHANGED <<links, handlers, applied, unacked, mounted, registered, orphans,
                   orphanCommands, scoreArg, scoreRet, tierArg, tierRet>>

Next ==
    \/ \E message \in Notifications : Deliver(message)
    \/ \E k \in 1..Len(handlers) : \E i \in 1..Len(handlers[k].promises) :
          \E o \in FetchOutcomes : Settle(k, i, o)
    \/ InjectScript
    \/ \E reply \in InjectionReplies : InjectionSettles(reply)

Spec == Init /\ [][Next]_vars

\* network calls settle: fetch ends by resolving or rejecting, and the
\* continuation of the callback that awaits it is then run.  Assumed of the
\* requests of the oldest suspended invocation only, which every suspended
\* invocation becomes unless it ends before
NetworkSettles ==
    WF_vars(\E i \in 1..MaxInFlight : \E o \in FetchOutcomes : Settle(1, i, o))

SpecSettling == Init /\ [][Next]_vars /\ NetworkSettles

(***************************************************************************)
(* Mounts and teardowns of the panel.  The effect of lines 153-182 runs on *)
(* a mount and its cleanup on an unmount; under StrictMode a development   *)
(* build runs effect, cleanup, effect on the first mount, in one commit.   *)
(* React drops the state of an unmounted instance and ignores its setters. *)
(***************************************************************************)
InitLifecycle == PanelIdle /\ Unmounted /\ PureIdle

Mount(strict) ==
    /\ ~mounted
    /\ mounted' = TRUE
    /\ registered' = (IF strict
                      THEN addListener(removeListener(addListener(registered)))
                      ELSE addListener(registered))
    /\ UNCHANGED <<links, isInjecting, error, handlers, commands, applied, unacked,
                   orphans, orphanCommands, scoreArg, scoreRet, tierArg, tierRet>>

\* the cleanup runs; what the instance had in flight goes on without it
Unmount ==
    /\ mounted
    /\ mounted' = FALSE
    /\ registered' = removeListener(registered)
    /\ orphans' = orphans \o [k \in 1..Len(handlers) |-> CountPending(handlers[k].promises)]
    /\ orphanCommands' = orphanCommands + commands
    /\ links' = <<>>
    /\ isInjecting' = FALSE
    /\ error' = NoError
    /\ handlers' = <<>>
    /\ commands' = 0
    /\ applied' = 0
    /\ UNCHANGED <<unacked, scoreArg, scoreRet, tierArg, tierRet>>

\* a request of an unmounted instance settles, with whatever outcome: the
\* callback fulfils its promise, and after the last one the listener resumes,
\* its setLinks and setError have no effect, and it calls sendResponse
SettleOrphan(k) ==
    /\ k \in 1..Len(orphans)
    /\ IF orphans[k] > 1
       THEN /\ orphans' = [orphans EXCEPT ![k] = orphans[k] - 1]
            /\ unacked' = unacked
       ELSE /\ orphans' = Remove(orphans, k)
            /\ unacked' = sendResponse(unacked)
    /\ UNCHANGED <<links, isInjecting, error, handlers, commands, applied,
                   mounted, registered, orphanCommands,
                   scoreArg, scoreRet, tierArg, tierRet>>

\* a command of an unmounted instance settles: setError and setIsInjecting
\* have no effect
OrphanInjectionSettles ==
    /\ orphanCommands > 0
    /\ orphanCommands' = orphanCommands - 1
    /\ UNCHANGED <<links, isInjecting, error, handlers, commands, applied, unacked,
                   mounted, registered, orphans,
                   scoreArg, scoreRet, tierArg, tierRet>>

NextLifecycle ==
    \/ \E message \in Notifications : Deliver(message)
    \/ \E k \in 1..Len(handlers) : \E i \in 1..Len(handlers[k].promises) :
          \E o \in FetchOutcomes : Settle(k, i, o)
    \/ InjectScript
    \/ \E reply \in InjectionReplies : InjectionSettles(reply)
    \/ \E strict \in BOOLEAN : Mount(strict)
    \/ Unmount
    \/ \E k \in 1..Len(orphans) : SettleOrphan(k)
    \/ OrphanInjectionSettles

SpecLifecycle == InitLifecycle /\ [][NextLifecycle]_vars

(***************************************************************************)
(* The panel with an analysis service that may break the data contract.    *)
(***************************************************************************)
NextBoundary ==
    \/ \E message \in Notifications : Deliver(message)
    \/ \E k \in 1..Len(handlers) : \E i \in 1..Len(handlers[k].promises) :
          \E o \in FetchOutcomes \cup ViolatingOutcomes : Settle(k, i, o)

SpecBoundary == Init /\ [][NextBoundary]_vars

(***************************************************************************)
(* calculateTotalScore on its own: a scores object is built entry by       *)
(* entry, then aggregated.                                                 *)
(***************************************************************************)
CategoryKeys ==
    << "account_control", "data_collection", "privacy_info", "account_testing",
       "cookies", "retention", "sharing", "tracking", "arbitration", "deletion" >>

\* the scores the entries are given
ScoreChoices == {0, 3, 5}

AddCategory(score) ==
    /\ ~scoreRet.called
    /\ Len(scoreArg) < MaxCategories
    /\ scoreArg' = Append(scoreArg,
           [category |-> CategoryKeys[Len(scoreArg) + 1], score |-> score])
    /\ UNCHANGED <<links, isInjecting, error, handlers, commands, applied, unacked,
                   mounted, registered, orphans, orphanCommands,
                   scoreRet, tierArg, tierRet>>

Aggregate ==
    /\ ~scoreRet.called
    /\ scoreRet' = Returned(calculateTotalScore(scoreArg))
    /\ UNCHANGED <<links, isInjecting, error, handlers, commands, applied, unacked,
                   mounted, registered, orphans, orphanCommands,
                   scoreArg, tierArg, tierRet>>

NextAggregate ==
    \/ \E score \in ScoreChoices : AddCategory(score)
    \/ Aggregate

SpecAggregate == Init /\ [][NextAggregate]_vars

(***************************************************************************)
(* The colour class on its own: a score is rendered.                       *)
(***************************************************************************)
InitTier ==
    /\ PanelIdle
    /\ Mounted
    /\ scoreArg = <<>>
    /\ scoreRet = NotCalled
    /\ tierArg \in {Num(p) : p \in 0..MaxPercentage} \cup {NaN}
    /\ tierRet = ""

Render ==
    /\ tierRet = ""
    /\ tierRet' = scoreClass(tierArg)
    /\ UNCHANGED <<links, isInjecting, error, handlers, commands, applied, unacked,
                   mounted, registered, orphans, orphanCommands,
                   scoreArg, scoreRet, tierArg>>

NextTier == Render

SpecTier == InitTier /\ [][NextTier]_vars

(***************************************************************************)
(* Properties.                                                             *)
(***************************************************************************)
\* promise i of handler h is the last one still pending
LastPending(h, i) ==
    \A j \in 1..Len(h.promises) : j # i => h.promises[j].state # "pending"

\* a step in which promise i of handler k, pending before, is settled
SettleStep(k, i) ==
    /\ handlers[k].promises[i].state = "pending"
    /\ commands' = commands
    /\ IF LastPending(handlers[k], i)
       THEN handlers' = Remove(handlers, k)
       ELSE /\ Len(handlers') = Len(handlers)
            /\ handlers'[k].promises[i].state # "pending"

\* what the claims expect to be recorded for link once its request met outcome o
Recorded(link, o) ==
    IF o.kind = "ok"
    THEN [href |-> link.href, type |-> link.type, hasAnalysis |-> TRUE, analysis |-> o.body]
    ELSE [href |-> link.href, type |-> link.type, hasAnalysis |-> FALSE, analysis |-> <<>>]

\* C1: whatever subset of a batch's requests fails (network error, non-2xx,
\* malformed body), the batch goes on and completes with one entry per link:
\* a failed request is recorded as the bare link, a successful one as the link
\* with the analysis it received, no other link's outcome changes, and the
\* batch's results are applied (the batch never fails).
C1_PartialFailureIsolation ==
    [][\A k \in 1..Len(handlers) : \A i \in 1..Len(handlers[k].promises) :
          SettleStep(k, i) => \A o \in FetchOutcomes :
              Settle(k, i, o) =>
                  LET h == handlers[k]
                  IN IF LastPending(h, i)
                     THEN /\ Len(links') = Len(h.links)
                          /\ links'[i] = Recorded(h.links[i], o)
                          /\ \A j \in 1..Len(h.links) :
                                j # i => links'[j] = h.promises[j].value
                     ELSE /\ Len(handlers') = Len(handlers)
                          /\ handlers'[k].promises[i].state = "fulfilled"
                          /\ handlers'[k].promises[i].value = Recorded(h.links[i], o)
                          /\ \A j \in 1..Len(h.links) :
                                j # i => handlers'[k].promises[j] = h.promises[j]
      ]_vars

\* a batch was displayed with one link analysed and another one failed
C1_Witness ==
    /\ Len(links) = 2
    /\ links[1].hasAnalysis
    /\ ~links[2].hasAnalysis

\* C2: in whatever order the requests of a batch complete, the displayed link
\* set has the length and order of the delivered links, and entry j holds the
\* outcome recorded for input link j.
C2_IndexCorrelation ==
    [][\A k \in 1..Len(handlers) : \A i \in 1..Len(handlers[k].promises) :
          (SettleStep(k, i) /\ LastPending(handlers[k], i)) => \A o \in FetchOutcomes :
              Settle(k, i, o) =>
                  LET h == handlers[k]
                  IN /\ Len(links') = Len(h.links)
                     /\ \A j \in 1..Len(h.links) :
                           /\ links'[j].href = h.links[j].href
                           /\ links'[j].type = h.links[j].type
                           /\ links'[j].hasAnalysis =
                                 (IF j = i THEN o.kind = "ok"
                                  ELSE h.promises[j].value.hasAnalysis)
      ]_vars

\* the request of the second link of <<tos, priv>> completed before the first
C2_Witness ==
    \E k \in 1..Len(handlers) :
        /\ handlers[k].links = <<TosLink, PrivLink>>
        /\ handlers[k].promises[1].state = "pending"
        /\ handlers[k].promises[2].state = "fulfilled"
        /\ handlers[k].promises[2].value.href = PrivLink.href

\* C3: the acknowledgement of a sendLinks notification is sent before its
\* analyses complete: no handler waiting for analyses is unacknowledged.
C3_AckBeforeAnalysis ==
    \A k \in 1..Len(handlers) : handlers[k].acked

\* C4: the results of a batch that was superseded by a later sendLinks
\* notification are discarded: its completion leaves the displayed links alone.
C4_NoStaleOverwrite ==
    [][\A k \in 1..Len(handlers) : \A i \in 1..Len(handlers[k].promises) :
          (handlers[k].superseded /\ SettleStep(k, i)) => \A o \in FetchOutcomes :
              Settle(k, i, o) => links' = links
      ]_vars

\* the union of the score maps of the links that were analysed, a later link's
\* entry replacing an earlier one of the same category
RECURSIVE SuccessfulScores(_)
SuccessfulScores(ls) ==
    IF ls = <<>> THEN <<>>
    ELSE LET before == SuccessfulScores(Front(ls))
             own == IF Last(ls).hasAnalysis THEN Last(ls).analysis ELSE <<>>
          IN SelectSeq(before,
                 LAMBDA e : \A n \in 1..Len(own) : own[n].category # e.category) \o own

\* C5: the score shown is the aggregate of the score maps of exactly the
\* links whose analysis succeeded (50 for tos = {3, 2} with priv failed).
C5_ScoreFromSuccessfulLinks ==
    (ScoreShown /\ \E j \in 1..Len(links) : links[j].hasAnalysis)
        => DisplayedScore = calculateTotalScore(SuccessfulScores(links))

\* C6: for a non-empty map with scores in 0..5 the result is an integer in
\* 0..100 equal to 100 * sum / (5 * count) rounded to the nearest integer,
\* halves up.
C6_RoundedMean ==
    (scoreRet.called /\ scoreArg # <<>>) =>
        LET sum == Reduce(scoreArg, 0)
            max == 5 * Len(scoreArg)
        IN /\ ~scoreRet.threw
           /\ ~scoreRet.result.isNaN
           /\ scoreRet.result.value \in 0..100
           /\ scoreRet.result.value = (2 * 100 * sum + max) \div (2 * max)

\* C7: aggregating an empty map fails; it returns no value.
C7_EmptyMapFails ==
    (scoreRet.called /\ scoreArg = <<>>) => scoreRet.threw

\* C8: a percentage of at most 40 is rendered low-trust (red), one above 40
\* and at most 80 moderate (blue), one above 80 high-trust (purple).
C8_Tiering ==
    (tierRet # "" /\ ~tierArg.isNaN) =>
        /\ tierArg.value <= 40 => tierRet = "text-red-500"
        /\ (40 < tierArg.value /\ tierArg.value <= 80) => tierRet = "text-blue-600"
        /\ tierArg.value > 80 => tierRet = "text-purple-500"

\* a boundary percentage was rendered
C8_Witness ==
    /\ tierArg = Num(80)
    /\ tierRet = "text-blue-600"

\* C9: once an earlier batch was applied, a batch that resolves replaces the
\* displayed link set by its own outcomes, in order, with nothing carried over.
C9_ReplaceNotMerge ==
    [][/\ applied >= 1 =>
             \A k \in 1..Len(handlers) : \A i \in 1..Len(handlers[k].promises) :
             (SettleStep(k, i) /\ LastPending(handlers[k], i)) => \A o \in FetchOutcomes :
                 Settle(k, i, o) =>
                     links' = [j \in 1..Len(handlers[k].links) |->
                                  IF j = i THEN Recorded(handlers[k].links[i], o)
                                  ELSE handlers[k].promises[j].value]
       /\ (applied >= 1 /\ Deliver([action |-> "sendLinks", links |-> <<>>]))
             => links' = <<>>
      ]_vars

\* a second batch was applied and is displayed
C9_Witness ==
    /\ applied = 2
    /\ handlers = <<>>
    /\ links = <<Plain(PrivLink)>>

\* C10: however the command fails (rejection, no response, failure response)
\* injectScript ends with error set to a non-empty message and isInjecting
\* false; error is null afterwards only for a success response.
C10_UniformInjectionFailure ==
    [][\A reply \in InjectionReplies :
          InjectionSettles(reply) =>
              /\ isInjecting' = FALSE
              /\ error'.isNull <=> (reply.kind = "response" /\ reply.status = "success")
              /\ ~error'.isNull => error'.message # ""
      ]_vars

\* an injection failed without a response and a new scan can be started
C10_Witness ==
    /\ ~isInjecting
    /\ commands = 0
    /\ error = ErrorOf("Failed to inject content script")

\* C11: while an injection command is outstanding (isInjecting) a click
\* starts no injectScript, so no second command is sent: at most one command
\* is in flight.
C11_NoReentrantInjection ==
    /\ commands <= 1
    /\ isInjecting => ~ENABLED InjectScript

\* a scan is outstanding while the links of an earlier scan are displayed
C11_Witness ==
    /\ isInjecting
    /\ commands = 1
    /\ links # <<>>

\* C12: over any sequence of mounts and unmounts (StrictMode's effect,
\* cleanup, effect included) one listener is registered while a panel is
\* mounted and none otherwise, so no notification is delivered to an unmounted
\* panel; once unmounted nothing is displayed, and what the panel had in
\* flight changes no displayed state when it settles.
C12_SymmetricRegistration ==
    /\ [](registered = (IF mounted THEN 1 ELSE 0))
    /\ [](~mounted =>
            /\ links = <<>> /\ error = NoError /\ ~isInjecting
            /\ \A message \in Notifications : ~ENABLED Deliver(message))
    /\ [][(orphans' # orphans \/ orphanCommands' # orphanCommands)
             /\ mounted' = mounted
          => UNCHANGED <<links, error, isInjecting, handlers, commands>>]_vars

\* a panel was mounted again while a batch and a command of the one before
\* are still in flight
C12_Witness ==
    /\ mounted
    /\ registered = 1
    /\ orphans # <<>>
    /\ orphanCommands > 0

\* C13: an analysis response with a category score outside 0..5 is treated
\* as a failure for its link: no link, displayed or being collected for a
\* batch, carries an analysis with such a score.
C13_BoundaryRejection ==
    /\ \A j \in 1..Len(links) :
          links[j].hasAnalysis =>
              \A n \in 1..Len(links[j].analysis) :
                  links[j].analysis[n].score \in 0..MaxScore
    /\ \A k \in 1..Len(handlers) : \A i \in 1..Len(handlers[k].promises) :
          handlers[k].promises[i].value.hasAnalysis =>
              \A n \in 1..Len(handlers[k].promises[i].value.analysis) :
                  handlers[k].promises[i].value.analysis[n].score \in 0..MaxScore

\* C14: a delivered batch of N links sends N requests, one per link; every
\* step settles at most one request and sends none again, a handler ends when
\* its last request settles, and a settled link's outcome never changes.
C14_OneRequestPerLink ==
    [][/\ Len(handlers') > Len(handlers) =>
             LET h == handlers'[Len(handlers')]
             IN /\ Len(handlers') = Len(handlers) + 1
                /\ Len(h.promises) = Len(h.links)
                /\ \A i \in 1..Len(h.promises) : h.promises[i] = Pending(h.links[i])
                /\ Outstanding(handlers') = Outstanding(handlers) + Len(h.links)
       /\ Len(handlers') = Len(handlers) =>
             /\ Outstanding(handlers') \in {Outstanding(handlers), Outstanding(handlers) - 1}
             /\ \A k \in 1..Len(handlers) :
                   /\ handlers'[k].links = handlers[k].links
                   /\ Len(handlers'[k].promises) = Len(handlers[k].promises)
                   /\ \A i \in 1..Len(handlers[k].promises) :
                         handlers[k].promises[i].state # "pending"
                             => handlers'[k].promises[i] = handlers[k].promises[i]
       /\ Len(handlers') < Len(handlers) =>
             /\ Len(handlers') = Len(handlers) - 1
             /\ Outstanding(handlers') = Outstanding(handlers) - 1
      ]_vars

\* the request of the first link of <<tos, priv>> failed and is not sent
\* again, the second is still out
C14_Witness ==
    \E k \in 1..Len(handlers) :
        /\ handlers[k].links = <<TosLink, PrivLink>>
        /\ handlers[k].promises[1] = [state |-> "fulfilled", value |-> Plain(TosLink)]
        /\ handlers[k].promises[2].state = "pending"
        /\ Outstanding(handlers) = 1

\* C15: every invocation of the listener calls sendResponse exactly once:
\* at once for a message that is no sendLinks or has no link, and otherwise,
\* given that every request of its batch settles, when the last one has
\* settled, whatever the outcomes: the invocations that have not responded
\* are the suspended ones, and no invocation stays suspended for ever (the
\* oldest suspended one responds again and again, or in the end none is left).
C15_AcknowledgedOnce ==
    /\ [](unacked = Len(handlers))
    /\ \/ []<><<Len(handlers) >= 1 /\ handlers' = Tail(handlers)
                                    /\ unacked' = unacked - 1>>_vars
       \/ <>[](unacked = 0)

\* a batch whose two requests both failed has completed and responded while
\* a later one is suspended
C15_Witness ==
    /\ links = <<Plain(TosLink), Plain(PrivLink)>>
    /\ unacked = 1
    /\ Len(handlers) = 1

\* C16: starting injectScript and the settling of its command leave the link
\* set alone; the link set changes only when a sendLinks batch completes.
C16_InjectionLeavesLinks ==
    [][/\ (commands' # commands \/ isInjecting' # isInjecting) => links' = links
       /\ links' # links =>
             \/ Len(handlers') < Len(handlers)
             \/ Deliver([action |-> "sendLinks", links |-> <<>>])
      ]_vars

\* a new scan failed while the links of an earlier scan stay displayed
C16_Witness ==
    /\ links # <<>>
    /\ ~isInjecting
    /\ error = ErrorOf("Cannot access this page")

\* C17: an error set by injectScript changes only by being cleared, and only
\* when a new injectScript starts or a sendLinks batch completes; every
\* completion of a batch, one already in flight when the injection failed
\* included, leaves error null.
C17_ErrorUntilSuperseded ==
    [][/\ (~error.isNull /\ error' # error) =>
             /\ error' = NoError
             /\ \/ commands' > commands
                \/ Len(handlers') < Len(handlers)
                \/ Deliver([action |-> "sendLinks", links |-> <<>>])
       /\ Len(handlers') < Len(handlers) => error' = NoError
      ]_vars

\* an injection failed while a batch is in flight
C17_Witness ==
    /\ ~error.isNull
    /\ commands = 0
    /\ handlers # <<>>

\* C18: isInjecting is true exactly while injectScript's command is
\* unsettled: it is false again as soon as the command has settled, with a
\* success, a failure, no response or a rejection.
C18_InjectingWhileOutstanding ==
    isInjecting <=> commands > 0

\* the command was rejected with something that is no Error, and a new scan
\* can be started
C18_Witness ==
    /\ ~isInjecting
    /\ commands = 0
    /\ error = ErrorOf("Unknown error occurred")

=============================================================================
